---------------------------- MODULE Spec2Model ----------------------------
(***************************************************************************)
(* A model of the client-side core of src/static/js/scripts.js: the        *)
(* PreloaderAnimation class, the SpeechBubbleController class with its two *)
(* joke-fetch paths, and the part of initializeApp that drives them.       *)
(*                                                                         *)
(* The browser is single-threaded: every action below is one callback (an  *)
(* input event, a timer, an animation frame, the completion of a fetch) or *)
(* one direct method call, run to completion.  Time is a discrete clock;   *)
(* a timer fires at its deadline and the clock never passes a deadline     *)
(* that is still pending.                                                  *)
(***************************************************************************)
EXTENDS Integers, Sequences, FiniteSets, TLC

\* ------------------------------------------------------------------------
\* Program constants
\* ------------------------------------------------------------------------

\* PreloaderAnimation.config (constructor)
animationDuration == 3000
messageIntervalPeriod == 1000
fadeOutDuration == 500
\* CONFIG (module level)
verticalSpacing == 50
configAnimationDuration == 30000
preloaderDelay == 3000
phrasesOfConfig ==
  << "Generating witty dialog", "Prepping Insults", "Offending Mothers",
     "Debating Fathers", "Irritating Aunts", "Annoying Grandmothers",
     "Disparaging Grandfathers", "Frustrating Matriarchs", "Cracking jokes",
     "Slacking off" >>

\* positionBubble
margin == 10
tailOffset == 15
defaultBubbleWidth == 250
defaultBubbleHeight == 80
\* MonitoringSwitcher constructor
switchDuration == 30000
\* the delay of the auto-hide timeout set by a tap on mobile
hideDelay == 5000
\* the limit of the throttled mousemove listener
throttleLimit == 16

\* Texts written by the speech bubble controller
LoadingJoke == "Loading joke..."
LoadingNewJoke == "Loading new joke..."
errorMessage == "Failed to load joke. Please try again."
fallbackJoke == "Yo momma is so fat that when she walked past the TV, I missed three episodes."

\* JavaScript values that are not strings, and absent DOM nodes
Null == "<null>"
Undefined == "<undefined>"
NoElement == "<no element>"
\* startTime: null, and a timer that is not pending
NoTime == -1
ServerText == "<server-rendered text>"

\* ------------------------------------------------------------------------
\* Bounds of the model
\* ------------------------------------------------------------------------

\* reload requests that may be outstanding at once (the isLoading guard
\* keeps them to one; the cap is reached only when that guard fails)
MaxOutstanding == 2
\* pending auto-hide timeouts of the bubble
MaxHideTimers == 2
\* granularity of the clock between taps, and the instant up to which the
\* hide timers are followed
TapTick == 2500
MaxTapTime == 7500
\* number of stop() calls a caller holding the PreloaderAnimation makes
MaxDirectStops == 2
\* number of phrases of CONFIG.phrases kept in the model
PhraseCount == 2
\* granularity of the clock, and the instant at which it stops
Tick == 500
MaxTime == 4000
\* granularity of the clock between pointer moves, and the instant up to
\* which pointer moves are followed
MoveTick == 8
MaxMoveTime == 40
\* intervals of the switcher alive at once (its guard keeps them to one;
\* the cap is reached only when that guard fails)
MaxIntervals == 2
\* granularity of the clock of the monitoring card, and the instant at which
\* it stops
SwitchTick == 10000
MaxSwitchTime == 90000
\* longest list a caller passes to Utils.shuffleArray
MaxLen == 3

\* ------------------------------------------------------------------------
\* State
\* ------------------------------------------------------------------------

VARIABLES
  \* --- the page and the clock
  now,                \* Date.now(), in ms since page-ready
  harness,            \* "page": initializeApp drives the preloader;
                      \* "direct": a caller holds a constructed instance
  \* --- PreloaderAnimation
  elements,           \* which of the four display regions were found
  duration,           \* this.config.animationDuration
  phrases,            \* this.phrases, the shuffled list
  configPhrases,      \* CONFIG.phrases, as it is now
  isAnimating, startTime, currentPhraseIndex,   \* this.state
  messageInterval,    \* this.messageInterval: 0 is null, else the handle
  intervalDue,        \* next tick of the active interval, NoTime if none
  framePending,       \* a requestAnimationFrame callback is registered
  safetyTimer,        \* deadline of initializeApp's setTimeout, or NoTime
  fadeTimers,         \* deadlines of the timeouts stop() has set, in order
  initialized,        \* initialize() has been called
  \* --- what the preloader shows
  rendered,           \* number of .phrase-item rows in the phrases container
  completed,          \* indices of the rows whose classList has 'completed'
  translateY,         \* translateY of the container, times duration
  messageText,        \* textContent of the status message element
  fadeOut,            \* classList of the preloader contains 'fade-out'
  preloaderHidden,    \* preloader.style.display = 'none'
  contentShown,       \* classList of the content wrapper contains 'show'
  bodyOverflowVisible,\* document.body.style.overflow = 'visible'
  \* --- observation of the preloader's callbacks
  stopCalls,          \* calls of stop()
  cancelCalls,        \* calls of clearInterval by stop()
  fadeScheduled,      \* timeouts set by stop()
  reveals,            \* runs of the timeout callback of stop()
  thrown,             \* a callback ended with an uncaught TypeError
  firstStopAt,        \* the time of the first stop(), NoTime before it
  \* --- the page and the environment of the speech bubble
  iconPresent,        \* document.getElementById('jod-icon') found an element
  jokeRegionPresent,  \* document.getElementById('joke-content') found an element
  touch,              \* 'ontouchstart' in window || navigator.maxTouchPoints > 0
  narrow,             \* matchMedia('(max-width: 768px)').matches
  hoverMedia,         \* matchMedia('(hover: hover) and (pointer: fine)').matches
  \* --- SpeechBubbleController.state
  isHovering, currentJoke, isLoading, isMobile, supportsHover,
  \* --- listeners bound by setupEventListeners
  touchListener, hoverListeners,
  \* --- the bubble element and the two display regions
  speechContent,      \* textContent of #speech-bubble-content
  jokeContent,        \* textContent of #joke-content
  bubbleShown,        \* classList of the bubble contains 'show'
  bubbleLoading,      \* classList of the bubble contains 'loading'
  bubbleTail,         \* [left, right]: classList contains 'tail-left', 'tail-right'
  bubbleStyle,        \* [left, top, transform] of the bubble's style
  \* --- asynchronous work of the controller
  inflight,           \* GET requests not yet settled: [initial, new] counts
  hideTimers,         \* when the pending setTimeout(() => hideBubble(), 5000)
                      \* fall due, in the order in which they were set
  inThrottle,         \* the flag of the throttled mousemove handler
  throttleTimer,      \* when the pending setTimeout(() => inThrottle = false,
                      \* 16) falls due, NoTime when none is pending
  lastThrottledRun,   \* when the throttled handler last ran positionBubble
  \* --- observation of the controller's callbacks
  dropped,            \* a loadNewJoke() call returned at its isLoading guard
                      \* since the guard was last set
  rejected,           \* a promise returned by loadNewJoke() or
                      \* loadInitialJoke() was rejected
  \* --- a call Utils.shuffleArray(array) by a caller that keeps its list
  callerArray,        \* the caller's list, as it is now
  randomDraws,        \* <<>> before the call, then <<the draws of the call>>
  returnedArray,      \* <<>> before the call, then <<the list returned>>
  \* --- MonitoringSwitcher
  switcherState,      \* this.state: 'prom' or 'highlight'
  switchInterval,     \* this.interval: 0 for null, else the handle
  switchTimers,       \* the intervals set and not cleared: handle and
                      \* next deadline of each
  cardTitle,          \* the monitoring card's title element was found
  cardRest,           \* its text, image, link and description were found
  cardTitleText,      \* the text of the card's title
  switcherThrown      \* a call or callback of the switcher threw

preloaderVars ==
  <<now, harness, elements, duration, phrases, configPhrases, isAnimating,
    startTime, currentPhraseIndex, messageInterval, intervalDue, framePending, safetyTimer,
    fadeTimers, initialized, rendered, completed, translateY, messageText,
    fadeOut, preloaderHidden, contentShown, bodyOverflowVisible, stopCalls,
    cancelCalls, fadeScheduled, reveals, thrown, firstStopAt>>

bubbleEnv == <<iconPresent, jokeRegionPresent, touch, narrow, hoverMedia>>
bubbleState == <<isHovering, currentJoke, isLoading, isMobile, supportsHover>>
bubbleDom == <<touchListener, hoverListeners, speechContent, jokeContent,
               bubbleShown, bubbleLoading, bubbleTail, bubbleStyle>>
bubbleAsync == <<inflight, hideTimers, inThrottle, throttleTimer, lastThrottledRun>>
bubbleVars == <<bubbleEnv, bubbleState, bubbleDom, bubbleAsync, dropped, rejected>>
utilVars == <<callerArray, randomDraws, returnedArray>>
switcherVars ==
  <<switcherState, switchInterval, switchTimers, cardTitle, cardRest,
    cardTitleText, switcherThrown>>

\* ------------------------------------------------------------------------
\* Utils
\* ------------------------------------------------------------------------

\* Utils.isMobileDevice(), evaluated in the current environment
isMobileDevice == touch \/ narrow

\* Utils.supportsHover(), evaluated in the current environment
supportsHoverQuery == hoverMedia

\* The draws of one shuffle: for each index i from the last down to 1
\* (counted from 0), j = Math.floor(Math.random() * (i + 1)) in 0..i
Draws(n) == {d \in [1..(n - 1) -> 0..(n - 1)] : \A i \in 1..(n - 1) : d[i] <= i}

\* [a[i], a[j]] = [a[j], a[i]], indices counted from 0
Swap(a, i, j) == [a EXCEPT ![i + 1] = a[j + 1], ![j + 1] = a[i + 1]]

RECURSIVE ShuffleFrom(_, _, _)
ShuffleFrom(a, i, draw) ==
  IF i <= 0 THEN a ELSE ShuffleFrom(Swap(a, i, draw[i]), i - 1, draw)

\* Utils.shuffleArray(array) under the given draws
shuffleArray(array, draw) == ShuffleFrom(array, Len(array) - 1, draw)

\* A call whose the loop works on the argument itself
ShuffleCallInPlace(array, draw) ==
  [returned |-> shuffleArray(array, draw), array |-> shuffleArray(array, draw)]

\* A call Utils.shuffleArray(array): the loop works on the copy [...array],
\* so the call returns the shuffled copy and leaves the caller's list
ShuffleCall(array, draw) ==
  [returned |-> shuffleArray(array, draw), array |-> array]

\* The lists a caller passes: up to MaxLen phrases, repeats allowed
ShuffleItems == {phrasesOfConfig[i] : i \in 1..MaxLen}
Lists == UNION {[1..n -> ShuffleItems] : n \in 0..MaxLen}

\* Before the call
InitUtils ==
  /\ callerArray \in Lists
  /\ randomDraws = <<>>
  /\ returnedArray = <<>>

\* The caller calls Utils.shuffleArray(callerArray) and keeps the result
CallShuffle ==
  /\ returnedArray = <<>>
  /\ \E d \in Draws(Len(callerArray)) :
       LET c == ShuffleCall(callerArray, d)
       IN /\ callerArray' = c.array
          /\ returnedArray' = <<c.returned>>
          /\ randomDraws' = <<d>>
  /\ UNCHANGED <<preloaderVars, bubbleVars, switcherVars>>

\* ------------------------------------------------------------------------
\* Preloader animation
\* ------------------------------------------------------------------------

\* The phrases of CONFIG.phrases the model keeps
ConfigPhrases == SubSeq(phrasesOfConfig, 1, PhraseCount)

\* The regions document.getElementById finds: all four, or all but one
ElementNames == {"preloader", "phrasesContainer", "messageElement", "contentWrapper"}
ElementSets ==
  {[n \in ElementNames |-> TRUE]} \cup
  {[n \in ElementNames |-> n # missing] : missing \in ElementNames}

\* validateElements()
validateElements ==
  /\ elements.preloader
  /\ elements.phrasesContainer
  /\ elements.messageElement
  /\ elements.contentWrapper

\* setupPhrases(): one row per phrase, in the order of the shuffled list,
\* each with its text and its translateY(index * verticalSpacing)
PhraseItems ==
  [i \in 1..rendered |->
     [text |-> phrases[i] \o "...", slot |-> (i - 1) * verticalSpacing,
      completed |-> (i - 1) \in completed]]

\* A comparison that also completes the row the stack has just reached
NewlyCompletedInclusive(elapsed) ==
  {i \in 0..(rendered - 1) : elapsed * Len(phrases) - i * duration >= 0}

\* updateAnimation(progress) with progress = elapsed / duration: the rows
\* that get 'completed' are those with progress * length - index > 0
NewlyCompleted(elapsed) ==
  {i \in 0..(rendered - 1) : elapsed * Len(phrases) - i * duration > 0}

\* A translation that starts over with every period of the message interval
TranslateOfLooping(elapsed) ==
  -((elapsed % messageIntervalPeriod) * (Len(phrases) * verticalSpacing))

\* -progress * (length * verticalSpacing), times duration
TranslateOf(elapsed) == -(elapsed * (Len(phrases) * verticalSpacing))

stopVars ==
  <<isAnimating, intervalDue, fadeOut, fadeTimers, stopCalls, cancelCalls,
    fadeScheduled, thrown, firstStopAt>>

StopHidesAtAnimationEnd ==
  /\ isAnimating' = FALSE
  /\ stopCalls' = stopCalls + 1
  /\ firstStopAt' = IF firstStopAt = NoTime THEN now ELSE firstStopAt
  /\ IF messageInterval # 0
       THEN /\ intervalDue' = NoTime
            /\ cancelCalls' = cancelCalls + 1
       ELSE UNCHANGED <<intervalDue, cancelCalls>>
  /\ IF elements.preloader
       THEN /\ fadeOut' = TRUE
            /\ fadeTimers' = Append(fadeTimers,
                 IF startTime # NoTime /\ startTime + duration > now
                   THEN startTime + duration ELSE now + fadeOutDuration)
            /\ fadeScheduled' = fadeScheduled + 1
            /\ UNCHANGED thrown
       ELSE /\ thrown' = TRUE
            /\ UNCHANGED <<fadeOut, fadeTimers, fadeScheduled>>

StopToggles ==
  /\ isAnimating' = ~isAnimating
  /\ stopCalls' = stopCalls + 1
  /\ firstStopAt' = IF firstStopAt = NoTime THEN now ELSE firstStopAt
  /\ IF messageInterval # 0
       THEN /\ intervalDue' = NoTime
            /\ cancelCalls' = cancelCalls + 1
       ELSE UNCHANGED <<intervalDue, cancelCalls>>
  /\ IF elements.preloader
       THEN /\ fadeOut' = TRUE
            /\ fadeTimers' = Append(fadeTimers, now + fadeOutDuration)
            /\ fadeScheduled' = fadeScheduled + 1
            /\ UNCHANGED thrown
       ELSE /\ thrown' = TRUE
            /\ UNCHANGED <<fadeOut, fadeTimers, fadeScheduled>>

StopKeepsInterval ==
  /\ isAnimating' = FALSE
  /\ stopCalls' = stopCalls + 1
  /\ firstStopAt' = IF firstStopAt = NoTime THEN now ELSE firstStopAt
  /\ IF messageInterval # 0
       THEN /\ intervalDue' = intervalDue
            /\ cancelCalls' = cancelCalls + 1
       ELSE UNCHANGED <<intervalDue, cancelCalls>>
  /\ IF elements.preloader
       THEN /\ fadeOut' = TRUE
            /\ fadeTimers' = Append(fadeTimers, now + fadeOutDuration)
            /\ fadeScheduled' = fadeScheduled + 1
            /\ UNCHANGED thrown
       ELSE /\ thrown' = TRUE
            /\ UNCHANGED <<fadeOut, fadeTimers, fadeScheduled>>

StopUnguarded ==
  /\ isAnimating' = FALSE
  /\ stopCalls' = stopCalls + 1
  /\ firstStopAt' = IF firstStopAt = NoTime THEN now ELSE firstStopAt
  /\ intervalDue' = NoTime
  /\ cancelCalls' = cancelCalls + 1
  /\ IF elements.preloader
       THEN /\ fadeOut' = TRUE
            /\ fadeTimers' = Append(fadeTimers, now + fadeOutDuration)
            /\ fadeScheduled' = fadeScheduled + 1
            /\ UNCHANGED thrown
       ELSE /\ thrown' = TRUE
            /\ UNCHANGED <<fadeOut, fadeTimers, fadeScheduled>>

\* stop(): clears the flag, cancels the interval when the handle is set,
\* then touches the preloader element, which throws when it is missing
stop ==
  /\ isAnimating' = FALSE
  /\ stopCalls' = stopCalls + 1
  /\ firstStopAt' = IF firstStopAt = NoTime THEN now ELSE firstStopAt
  /\ IF messageInterval # 0
       THEN /\ intervalDue' = NoTime
            /\ cancelCalls' = cancelCalls + 1
       ELSE UNCHANGED <<intervalDue, cancelCalls>>
  /\ IF elements.preloader
       THEN /\ fadeOut' = TRUE
            /\ fadeTimers' = Append(fadeTimers, now + fadeOutDuration)
            /\ fadeScheduled' = fadeScheduled + 1
            /\ UNCHANGED thrown
       ELSE /\ thrown' = TRUE
            /\ UNCHANGED <<fadeOut, fadeTimers, fadeScheduled>>

\* What initialize() leaves when it runs at time t: nothing when a region
\* is missing; otherwise setupPhrases(), start() and the first animate(),
\* whose progress is 0
AfterInitialize(t) ==
  IF validateElements
    THEN [isAnimating |-> TRUE, startTime |-> t, messageInterval |-> 1,
          intervalDue |-> t + messageIntervalPeriod, framePending |-> TRUE,
          rendered |-> Len(phrases)]
    ELSE [isAnimating |-> FALSE, startTime |-> NoTime, messageInterval |-> 0,
          intervalDue |-> NoTime, framePending |-> FALSE, rendered |-> 0]

\* The state after new PreloaderAnimation() and, on the page, after the
\* rest of initializeApp: preloader.initialize() and the safety timer
InitPreloader ==
  /\ now = 0
  /\ harness \in {"page", "direct"}
  /\ elements \in ElementSets
  /\ duration \in {animationDuration, configAnimationDuration}
  /\ \E d \in Draws(PhraseCount) :
       LET c == ShuffleCall(ConfigPhrases, d)
       IN /\ phrases = c.returned
          /\ configPhrases = c.array
  /\ currentPhraseIndex = 0
  /\ LET a == IF harness = "page" THEN AfterInitialize(0)
              ELSE [isAnimating |-> FALSE, startTime |-> NoTime,
                    messageInterval |-> 0, intervalDue |-> NoTime,
                    framePending |-> FALSE, rendered |-> 0]
     IN /\ isAnimating = a.isAnimating
        /\ startTime = a.startTime
        /\ messageInterval = a.messageInterval
        /\ intervalDue = a.intervalDue
        /\ framePending = a.framePending
        /\ rendered = a.rendered
  /\ initialized = (harness = "page")
  /\ safetyTimer = IF harness = "page" THEN preloaderDelay ELSE NoTime
  /\ fadeTimers = <<>>
  /\ completed = {}
  /\ translateY = 0
  /\ messageText = IF elements.messageElement THEN ServerText ELSE NoElement
  /\ fadeOut = FALSE
  /\ preloaderHidden = FALSE
  /\ contentShown = FALSE
  /\ bodyOverflowVisible = FALSE
  /\ stopCalls = 0
  /\ cancelCalls = 0
  /\ fadeScheduled = 0
  /\ reveals = 0
  /\ thrown = FALSE
  /\ firstStopAt = NoTime

\* A caller holding the instance calls initialize()
CallInitialize ==
  /\ harness = "direct"
  /\ ~initialized
  /\ initialized' = TRUE
  /\ LET a == AfterInitialize(now)
     IN /\ isAnimating' = a.isAnimating
        /\ startTime' = a.startTime
        /\ messageInterval' = a.messageInterval
        /\ intervalDue' = a.intervalDue
        /\ framePending' = a.framePending
        /\ rendered' = a.rendered
        /\ translateY' = IF validateElements THEN TranslateOf(0) ELSE translateY
  /\ UNCHANGED <<now, harness, elements, duration, phrases, configPhrases, currentPhraseIndex,
                 safetyTimer, fadeTimers, completed, messageText, fadeOut,
                 preloaderHidden, contentShown, bodyOverflowVisible, stopCalls,
                 cancelCalls, fadeScheduled, reveals, thrown, firstStopAt>>
  /\ UNCHANGED <<bubbleVars, utilVars, switcherVars>>

\* A caller holding the instance calls stop()
CallStop ==
  /\ harness = "direct"
  /\ stopCalls < MaxDirectStops
  /\ stop
  /\ UNCHANGED <<now, harness, elements, duration, phrases, configPhrases, startTime,
                 currentPhraseIndex, messageInterval, framePending, safetyTimer,
                 initialized, rendered, completed, translateY, messageText,
                 preloaderHidden, contentShown, bodyOverflowVisible, reveals>>
  /\ UNCHANGED <<bubbleVars, utilVars, switcherVars>>

\* The timeout of initializeApp fires: preloader.stop()
SafetyTimeout ==
  /\ safetyTimer # NoTime
  /\ safetyTimer <= now
  /\ safetyTimer' = NoTime
  /\ stop
  /\ UNCHANGED <<now, harness, elements, duration, phrases, configPhrases, startTime,
                 currentPhraseIndex, messageInterval, framePending, initialized,
                 rendered, completed, translateY, messageText, preloaderHidden,
                 contentShown, bodyOverflowVisible, reveals>>
  /\ UNCHANGED <<bubbleVars, utilVars, switcherVars>>

\* An animation frame: animate()
AnimationFrame ==
  /\ framePending
  /\ IF ~isAnimating
       THEN /\ framePending' = FALSE
            /\ UNCHANGED <<translateY, completed, stopVars>>
       ELSE IF now - startTime < duration
         THEN /\ translateY' = TranslateOf(now - startTime)
              /\ completed' = completed \cup NewlyCompleted(now - startTime)
              /\ framePending' = TRUE
              /\ UNCHANGED stopVars
         ELSE /\ framePending' = FALSE
              /\ stop
              /\ UNCHANGED <<translateY, completed>>
  /\ UNCHANGED <<now, harness, elements, duration, phrases, configPhrases, startTime,
                 currentPhraseIndex, messageInterval, safetyTimer, initialized,
                 rendered, messageText, preloaderHidden, contentShown,
                 bodyOverflowVisible, reveals>>
  /\ UNCHANGED <<bubbleVars, utilVars, switcherVars>>

\* An updateMessage() that advances by rotating the phrase list
IntervalTickRotating ==
  /\ intervalDue # NoTime
  /\ intervalDue <= now
  /\ intervalDue' = intervalDue + messageIntervalPeriod
  /\ phrases' = Append(Tail(phrases), Head(phrases))
  /\ messageText' = phrases'[1] \o "..."
  /\ UNCHANGED <<now, harness, elements, duration, currentPhraseIndex, configPhrases, isAnimating,
                 startTime, messageInterval, framePending, safetyTimer,
                 fadeTimers, initialized, rendered, completed, translateY,
                 fadeOut, preloaderHidden, contentShown, bodyOverflowVisible,
                 stopCalls, cancelCalls, fadeScheduled, reveals, thrown,
                 firstStopAt>>
  /\ UNCHANGED <<bubbleVars, utilVars, switcherVars>>

\* An updateMessage() that counts on without wrapping around
IntervalTickNoWrap ==
  /\ intervalDue # NoTime
  /\ intervalDue <= now
  /\ intervalDue' = intervalDue + messageIntervalPeriod
  /\ currentPhraseIndex' = currentPhraseIndex + 1
  /\ messageText' = IF currentPhraseIndex' < Len(phrases)
                      THEN phrases[currentPhraseIndex' + 1] \o "..."
                      ELSE Undefined \o "..."
  /\ UNCHANGED <<now, harness, elements, duration, phrases, configPhrases, isAnimating,
                 startTime, messageInterval, framePending, safetyTimer,
                 fadeTimers, initialized, rendered, completed, translateY,
                 fadeOut, preloaderHidden, contentShown, bodyOverflowVisible,
                 stopCalls, cancelCalls, fadeScheduled, reveals, thrown,
                 firstStopAt>>
  /\ UNCHANGED <<bubbleVars, utilVars, switcherVars>>

\* A tick of the message interval: updateMessage()
IntervalTick ==
  /\ intervalDue # NoTime
  /\ intervalDue <= now
  /\ intervalDue' = intervalDue + messageIntervalPeriod
  /\ currentPhraseIndex' = (currentPhraseIndex + 1) % Len(phrases)
  /\ messageText' = phrases[currentPhraseIndex' + 1] \o "..."
  /\ UNCHANGED <<now, harness, elements, duration, phrases, configPhrases, isAnimating,
                 startTime, messageInterval, framePending, safetyTimer,
                 fadeTimers, initialized, rendered, completed, translateY,
                 fadeOut, preloaderHidden, contentShown, bodyOverflowVisible,
                 stopCalls, cancelCalls, fadeScheduled, reveals, thrown,
                 firstStopAt>>
  /\ UNCHANGED <<bubbleVars, utilVars, switcherVars>>

\* A timeout callback that toggles the display of the preloader
FadeTimeoutToggles ==
  /\ fadeTimers # <<>>
  /\ Head(fadeTimers) <= now
  /\ fadeTimers' = Tail(fadeTimers)
  /\ reveals' = reveals + 1
  /\ preloaderHidden' = ~preloaderHidden
  /\ IF elements.contentWrapper
       THEN /\ contentShown' = TRUE
            /\ bodyOverflowVisible' = TRUE
            /\ UNCHANGED thrown
       ELSE /\ thrown' = TRUE
            /\ UNCHANGED <<contentShown, bodyOverflowVisible>>
  /\ UNCHANGED <<now, harness, elements, duration, phrases, configPhrases, isAnimating,
                 startTime, currentPhraseIndex, messageInterval, intervalDue,
                 framePending, safetyTimer, initialized, rendered, completed,
                 translateY, messageText, fadeOut, stopCalls, cancelCalls,
                 fadeScheduled, firstStopAt>>
  /\ UNCHANGED <<bubbleVars, utilVars, switcherVars>>

\* The timeout set by stop() fires: hide the preloader, reveal the content
\* wrapper (which throws when it is missing), restore scrolling
FadeTimeout ==
  /\ fadeTimers # <<>>
  /\ Head(fadeTimers) <= now
  /\ fadeTimers' = Tail(fadeTimers)
  /\ reveals' = reveals + 1
  /\ preloaderHidden' = TRUE
  /\ IF elements.contentWrapper
       THEN /\ contentShown' = TRUE
            /\ bodyOverflowVisible' = TRUE
            /\ UNCHANGED thrown
       ELSE /\ thrown' = TRUE
            /\ UNCHANGED <<contentShown, bodyOverflowVisible>>
  /\ UNCHANGED <<now, harness, elements, duration, phrases, configPhrases, isAnimating,
                 startTime, currentPhraseIndex, messageInterval, intervalDue,
                 framePending, safetyTimer, initialized, rendered, completed,
                 translateY, messageText, fadeOut, stopCalls, cancelCalls,
                 fadeScheduled, firstStopAt>>
  /\ UNCHANGED <<bubbleVars, utilVars, switcherVars>>

\* The deadlines of the pending timers
Deadlines ==
  ({intervalDue, safetyTimer, throttleTimer} \ {NoTime})
    \cup {fadeTimers[i] : i \in 1..Len(fadeTimers)}
    \cup {hideTimers[i] : i \in 1..Len(hideTimers)}
    \cup {switchTimers[i].due : i \in 1..Len(switchTimers)}

Min(a, b) == IF a <= b THEN a ELSE b

\* The clock advances by a tick, or to the next deadline when that is
\* sooner; it does not pass a timer that is due
AdvanceTime ==
  /\ now < MaxTime
  /\ \A d \in Deadlines : d > now
  /\ now' = IF \E d \in Deadlines : d < now + Tick
              THEN CHOOSE d \in Deadlines : \A e \in Deadlines : d <= e
              ELSE Min(now + Tick, MaxTime)
  /\ UNCHANGED <<harness, elements, duration, phrases, configPhrases, isAnimating, startTime,
                 currentPhraseIndex, messageInterval, intervalDue, framePending,
                 safetyTimer, fadeTimers, initialized, rendered, completed,
                 translateY, messageText, fadeOut, preloaderHidden, contentShown,
                 bodyOverflowVisible, stopCalls, cancelCalls, fadeScheduled,
                 reveals, thrown, firstStopAt>>
  /\ UNCHANGED <<bubbleVars, utilVars, switcherVars>>

NextPreloader ==
  \/ CallInitialize
  \/ CallStop
  \/ SafetyTimeout
  \/ AnimationFrame
  \/ IntervalTick
  \/ FadeTimeout
  \/ AdvanceTime


\* ------------------------------------------------------------------------
\* Remote joke fetcher: responses and the extraction of the joke
\* ------------------------------------------------------------------------

\* A JSON object is the sequence of its <<key, value>> entries in insertion
\* order, which is the order of Object.values().
\* The bodies drawn: no field, content alone (a joke, another joke, the empty
\* string), another field alone, and both fields in either order.
JsonObjects ==
  { <<>>,
    << <<"content", "X">> >>, << <<"content", "Y">> >>, << <<"content", "">> >>,
    << <<"id", "Y">> >>,
    << <<"id", "Y">>, <<"content", "X">> >>,
    << <<"content", "X">>, <<"id", "Y">> >>,
    << <<"id", "Y">>, <<"content", "">> >> }

\* data[key]: the value of the entry, undefined when there is none
Field(data, key) ==
  IF \E i \in 1..Len(data) : data[i][1] = key
    THEN data[CHOOSE i \in 1..Len(data) : data[i][1] = key][2]
    ELSE Undefined

\* Object.values(data)[0]
FirstValue(data) == IF Len(data) = 0 THEN Undefined ELSE data[1][2]

\* ToBoolean of a model value
Truthy(v) == v \notin {Undefined, Null, ""}

ExtractJokeContentOnly(data) == Field(data, "content")

\* data.content || Object.values(data)[0]
ExtractJoke(data) ==
  IF Truthy(Field(data, "content")) THEN Field(data, "content") ELSE FirstValue(data)

\* The text a node shows after node.textContent = v: null and undefined
\* become the empty string (textContent is a nullable DOMString).
TextContent(v) == IF v \in {Undefined, Null} THEN "" ELSE v

\* How a fetch can settle: rejected by the network, answered with a
\* non-2xx status, answered 2xx with a body response.json() rejects, or
\* answered 2xx with a JSON object.
Outcomes ==
  {[kind |-> k, data |-> <<>>] : k \in {"network", "http", "badjson"}}
    \cup {[kind |-> "ok", data |-> d] : d \in JsonObjects}

\* ------------------------------------------------------------------------
\* Speech bubble controller: positioning
\* ------------------------------------------------------------------------

Px(n) == [unit |-> "px", v |-> n]
Percent(n) == [unit |-> "%", v |-> n]
Unset == [unit |-> "", v |-> 0]

\* The geometry read by positionBubble when a pointer handler runs: the
\* icon near the left edge of a 1000-wide viewport, the bubble not yet
\* measurable.  Widths are even, so that the halves are whole numbers.
PointerGeometries ==
  { [iconLeft |-> 20, iconTop |-> 300, iconWidth |-> 40, iconHeight |-> 40,
     viewportWidth |-> 1000, offsetWidth |-> 0, offsetHeight |-> 0] }

\* The geometries of the positioning runs: the icon near the left edge, in
\* the middle and near the right edge of a 1000-wide viewport, near the top
\* edge, a little lower and well below it; the bubble not yet measurable, or
\* measured 300 by 120
Geometries ==
  { [iconLeft |-> l, iconTop |-> t, iconWidth |-> 40, iconHeight |-> 40,
     viewportWidth |-> 1000, offsetWidth |-> b[1], offsetHeight |-> b[2]] :
    l \in {20, 480, 940}, t \in {40, 100, 300}, b \in {<<0, 0>>, <<300, 120>>} }

\* bubbleElement.offsetWidth || 250, bubbleElement.offsetHeight || 80
BubbleWidth(g) == IF g.offsetWidth # 0 THEN g.offsetWidth ELSE defaultBubbleWidth
BubbleHeight(g) == IF g.offsetHeight # 0 THEN g.offsetHeight ELSE defaultBubbleHeight

ProposedLeft(g) == g.iconLeft + g.iconWidth \div 2 - BubbleWidth(g) \div 2
ProposedTop(g) == g.iconTop - BubbleHeight(g) - tailOffset
IconBottom(g) == g.iconTop + g.iconHeight

\* positionBubble(e) without the branch for the right edge
positionBubbleNoRightClamp(mobile, g, style, tailFlags) ==
  IF mobile
    THEN [style |-> [left |-> Percent(50), transform |-> "translateX(-50%)",
                     top |-> Px(IconBottom(g) + tailOffset)],
          tail |-> tailFlags]
    ELSE LET left == ProposedLeft(g)
             top == ProposedTop(g)
             newLeft == IF left < margin THEN margin ELSE left
             newTail == IF left < margin THEN [left |-> TRUE, right |-> FALSE]
                        ELSE [left |-> FALSE, right |-> FALSE]
             newTop == IF top < margin THEN IconBottom(g) + tailOffset ELSE top
         IN [style |-> [style EXCEPT !.left = Px(newLeft), !.top = Px(newTop)],
             tail |-> newTail]

\* positionBubble(e) that flips only a top above the viewport's edge
positionBubbleFlipsAtEdge(mobile, g, style, tailFlags) ==
  IF mobile
    THEN [style |-> [left |-> Percent(50), transform |-> "translateX(-50%)",
                     top |-> Px(IconBottom(g) + tailOffset)],
          tail |-> tailFlags]
    ELSE LET left == ProposedLeft(g)
             top == ProposedTop(g)
             w == BubbleWidth(g)
             newLeft == IF left < margin THEN margin
                        ELSE IF left + w > g.viewportWidth - margin
                               THEN g.viewportWidth - w - margin
                               ELSE left
             newTail == IF left < margin THEN [left |-> TRUE, right |-> FALSE]
                        ELSE IF left + w > g.viewportWidth - margin
                               THEN [left |-> FALSE, right |-> TRUE]
                               ELSE [left |-> FALSE, right |-> FALSE]
             newTop == IF top < 0 THEN IconBottom(g) + tailOffset ELSE top
         IN [style |-> [style EXCEPT !.left = Px(newLeft), !.top = Px(newTop)],
             tail |-> newTail]

\* positionBubble(e) without the branch for the left edge
positionBubbleNoLeftClamp(mobile, g, style, tailFlags) ==
  IF mobile
    THEN [style |-> [left |-> Percent(50), transform |-> "translateX(-50%)",
                     top |-> Px(IconBottom(g) + tailOffset)],
          tail |-> tailFlags]
    ELSE LET left == ProposedLeft(g)
             top == ProposedTop(g)
             w == BubbleWidth(g)
             newLeft == IF FALSE THEN margin
                        ELSE IF left + w > g.viewportWidth - margin
                               THEN g.viewportWidth - w - margin
                               ELSE left
             newTail == IF left < margin THEN [left |-> TRUE, right |-> FALSE]
                        ELSE IF left + w > g.viewportWidth - margin
                               THEN [left |-> FALSE, right |-> TRUE]
                               ELSE [left |-> FALSE, right |-> FALSE]
             newTop == IF top < margin THEN IconBottom(g) + tailOffset ELSE top
         IN [style |-> [style EXCEPT !.left = Px(newLeft), !.top = Px(newTop)],
             tail |-> newTail]

\* positionBubble(e) that adds a tail class without removing the others
positionBubbleAddsTail(mobile, g, style, tailFlags) ==
  IF mobile
    THEN [style |-> [left |-> Percent(50), transform |-> "translateX(-50%)",
                     top |-> Px(IconBottom(g) + tailOffset)],
          tail |-> tailFlags]
    ELSE LET left == ProposedLeft(g)
             top == ProposedTop(g)
             w == BubbleWidth(g)
             newLeft == IF left < margin THEN margin
                        ELSE IF left + w > g.viewportWidth - margin
                               THEN g.viewportWidth - w - margin
                               ELSE left
             newTail == [left |-> tailFlags.left \/ left < margin,
                         right |-> tailFlags.right
                                     \/ left + w > g.viewportWidth - margin]
             newTop == IF top < margin THEN IconBottom(g) + tailOffset ELSE top
         IN [style |-> [style EXCEPT !.left = Px(newLeft), !.top = Px(newTop)],
             tail |-> newTail]

\* positionBubble(e): the style and the tail classes it leaves
positionBubble(mobile, g, style, tailFlags) ==
  IF mobile
    THEN [style |-> [left |-> Percent(50), transform |-> "translateX(-50%)",
                     top |-> Px(IconBottom(g) + tailOffset)],
          tail |-> tailFlags]
    ELSE LET left == ProposedLeft(g)
             top == ProposedTop(g)
             w == BubbleWidth(g)
             newLeft == IF left < margin THEN margin
                        ELSE IF left + w > g.viewportWidth - margin
                               THEN g.viewportWidth - w - margin
                               ELSE left
             newTail == IF left < margin THEN [left |-> TRUE, right |-> FALSE]
                        ELSE IF left + w > g.viewportWidth - margin
                               THEN [left |-> FALSE, right |-> TRUE]
                               ELSE [left |-> FALSE, right |-> FALSE]
             newTop == IF top < margin THEN IconBottom(g) + tailOffset ELSE top
         IN [style |-> [style EXCEPT !.left = Px(newLeft), !.top = Px(newTop)],
             tail |-> newTail]

\* ------------------------------------------------------------------------
\* Speech bubble controller: the two fetch paths
\* ------------------------------------------------------------------------

loadVars == <<isLoading, bubbleLoading, speechContent, inflight, dropped, rejected>>

Outstanding == inflight.initial + inflight.new

\* loadNewJoke() after its guard, up to the await of fetch()
StartReload ==
  /\ inflight.new < MaxOutstanding
  /\ isLoading' = TRUE
  /\ bubbleLoading' = TRUE
  /\ speechContent' = LoadingNewJoke
  /\ inflight' = [inflight EXCEPT !.new = @ + 1]
  /\ UNCHANGED <<dropped, rejected>>

loadNewJokeUnguarded == StartReload

\* loadNewJoke() up to its first await, on a controller whose bubble exists
loadNewJoke ==
  IF isLoading
    THEN /\ dropped' = TRUE
         /\ UNCHANGED <<isLoading, bubbleLoading, speechContent, inflight, rejected>>
    ELSE StartReload

\* loadNewJoke() on a controller whose init() returned early: bubbleElement
\* is null, and the classList access throws after isLoading was set.
loadNewJokeNoBubble ==
  IF isLoading
    THEN /\ dropped' = TRUE
         /\ UNCHANGED <<isLoading, bubbleLoading, speechContent, inflight, rejected>>
    ELSE /\ isLoading' = TRUE
         /\ rejected' = TRUE
         /\ UNCHANGED <<bubbleLoading, speechContent, inflight, dropped>>

\* A direct call loadNewJoke() by a caller holding the instance.
CallLoadNewJoke ==
  /\ IF iconPresent THEN loadNewJoke ELSE loadNewJokeNoBubble
  /\ UNCHANGED <<bubbleEnv, isHovering, currentJoke, isMobile, supportsHover,
                 touchListener, hoverListeners, jokeContent, bubbleShown,
                 bubbleTail, bubbleStyle, hideTimers, inThrottle, throttleTimer,
                 lastThrottledRun>>
  /\ UNCHANGED <<preloaderVars, utilVars, switcherVars>>

\* What a settled fetch leaves in currentJoke, the two display regions and
\* the loading guard.
Write(joke, speech, page, loading, cls) ==
  [joke |-> joke, speech |-> speech, page |-> page, loading |-> loading, cls |-> cls]

\* The text of the page's joke region after a guarded write of text
PageText(text) == IF jokeRegionPresent THEN text ELSE jokeContent

Success(data, loading, cls) ==
  Write(ExtractJoke(data), TextContent(ExtractJoke(data)),
        PageText(TextContent(ExtractJoke(data))), loading, cls)

SettleNewJokeKeepsJoke(o) ==
  IF o.kind = "ok"
    THEN Success(o.data, FALSE, FALSE)
    ELSE Write(currentJoke, errorMessage, PageText(errorMessage), FALSE, FALSE)

SettleNewJokeNoFinally(o) ==
  IF o.kind = "ok"
    THEN Success(o.data, FALSE, FALSE)
    ELSE Write(Null, errorMessage, PageText(errorMessage), isLoading, bubbleLoading)

\* loadNewJoke() from the settling of its fetch to its end: the try body
\* after the await, the catch block, the finally block
SettleNewJoke(o) ==
  IF o.kind = "ok"
    THEN Success(o.data, FALSE, FALSE)
    ELSE Write(Null, errorMessage, PageText(errorMessage), FALSE, FALSE)

SettleInitialJokeAsReload(o) ==
  IF o.kind = "ok"
    THEN Success(o.data, isLoading, bubbleLoading)
    ELSE Write(Null, errorMessage, PageText(errorMessage), isLoading, bubbleLoading)

\* loadInitialJoke() from the settling of its fetch to its end
SettleInitialJoke(o) ==
  IF o.kind = "ok"
    THEN Success(o.data, isLoading, bubbleLoading)
    ELSE Write(fallbackJoke, fallbackJoke, jokeContent, isLoading, bubbleLoading)

\* The settled fetch makes the try block throw: fetch() rejects, the status
\* is not ok, or response.json() rejects
ThrowsInTry(o) == o.kind # "ok"

\* A load function whose catch block throws the error again
RejectsWhenRethrown(kind, o) == ThrowsInTry(o)

\* A catch block that writes the joke region of the page without testing
\* that the region exists
CatchWritesUnguarded(kind, o) == jokeRegionPresent

\* catch (error) { ... } of either load function takes every error of its
\* try block and ends without throwing: its writes are guarded by the
\* presence of their elements
CatchHandles(kind, o) == TRUE

\* The promise of the load function rejects: an error leaves the function
Rejects(kind, o) == ThrowsInTry(o) /\ ~CatchHandles(kind, o)

\* The fetch of an outstanding request of the given kind settles with
\* outcome o; the rest of the async function that awaits it runs.
Settle(kind, o) ==
  /\ inflight[kind] > 0
  /\ LET w == IF kind = "new" THEN SettleNewJoke(o) ELSE SettleInitialJoke(o)
     IN /\ currentJoke' = w.joke
        /\ speechContent' = w.speech
        /\ jokeContent' = w.page
        /\ isLoading' = w.loading
        /\ bubbleLoading' = w.cls
  /\ inflight' = [inflight EXCEPT ![kind] = @ - 1]
  /\ dropped' = (dropped /\ isLoading')
  /\ rejected' = (rejected \/ Rejects(kind, o))
  /\ UNCHANGED <<bubbleEnv, isHovering, isMobile, supportsHover, touchListener,
                 hoverListeners, bubbleShown, bubbleTail, bubbleStyle,
                 hideTimers, inThrottle, throttleTimer,
                 lastThrottledRun>>
  /\ UNCHANGED <<preloaderVars, utilVars, switcherVars>>

SettleFetch == \E kind \in {"initial", "new"}, o \in Outcomes : Settle(kind, o)

\* ------------------------------------------------------------------------
\* Speech bubble controller: input handlers
\* ------------------------------------------------------------------------

\* A handleClick() that does not test isLoading
handleClickUnguarded(ev) ==
  /\ iconPresent
  /\ ev = "touchstart" => touchListener
  /\ IF TRUE
       THEN /\ IF isMobile
                 THEN /\ Len(hideTimers) < MaxHideTimers
                      /\ bubbleShown' = TRUE
                      /\ hideTimers' = Append(hideTimers, now + hideDelay)
                 ELSE UNCHANGED <<bubbleShown, hideTimers>>
            /\ loadNewJoke
       ELSE UNCHANGED <<bubbleShown, hideTimers, loadVars>>
  /\ UNCHANGED <<bubbleEnv, isHovering, currentJoke, isMobile, supportsHover,
                 touchListener, hoverListeners, jokeContent, bubbleTail,
                 bubbleStyle, inThrottle, throttleTimer,
                 lastThrottledRun>>
  /\ UNCHANGED <<preloaderVars, utilVars, switcherVars>>

\* handleClick(), run by the click listener and, where it was bound, by the
\* touchstart listener
handleClick(ev) ==
  /\ iconPresent
  /\ ev = "touchstart" => touchListener
  /\ IF ~isLoading
       THEN /\ IF isMobile
                 THEN /\ Len(hideTimers) < MaxHideTimers
                      /\ bubbleShown' = TRUE
                      /\ hideTimers' = Append(hideTimers, now + hideDelay)
                 ELSE UNCHANGED <<bubbleShown, hideTimers>>
            /\ loadNewJoke
       ELSE UNCHANGED <<bubbleShown, hideTimers, loadVars>>
  /\ UNCHANGED <<bubbleEnv, isHovering, currentJoke, isMobile, supportsHover,
                 touchListener, hoverListeners, jokeContent, bubbleTail,
                 bubbleStyle, inThrottle, throttleTimer,
                 lastThrottledRun>>
  /\ UNCHANGED <<preloaderVars, utilVars, switcherVars>>

\* A handleMouseEnter() that requests a joke whether or not one is stored
handleMouseEnterAlwaysLoads(g) ==
  /\ hoverListeners
  /\ IF isMobile
       THEN UNCHANGED <<isHovering, bubbleStyle, bubbleTail, bubbleShown, loadVars>>
       ELSE /\ isHovering' = TRUE
            /\ LET p == positionBubble(isMobile, g, bubbleStyle, bubbleTail)
               IN /\ bubbleStyle' = p.style
                  /\ bubbleTail' = p.tail
            /\ bubbleShown' = TRUE
            /\ IF FALSE
                 THEN /\ speechContent' = currentJoke
                      /\ UNCHANGED <<isLoading, bubbleLoading, inflight, dropped, rejected>>
                 ELSE IF ~isLoading THEN loadNewJoke ELSE UNCHANGED loadVars
  /\ UNCHANGED <<bubbleEnv, currentJoke, isMobile, supportsHover, touchListener,
                 hoverListeners, jokeContent, hideTimers, inThrottle,
                 throttleTimer, lastThrottledRun>>
  /\ UNCHANGED <<preloaderVars, utilVars, switcherVars>>

\* handleMouseEnter(e)
handleMouseEnter(g) ==
  /\ hoverListeners
  /\ IF isMobile
       THEN UNCHANGED <<isHovering, bubbleStyle, bubbleTail, bubbleShown, loadVars>>
       ELSE /\ isHovering' = TRUE
            /\ LET p == positionBubble(isMobile, g, bubbleStyle, bubbleTail)
               IN /\ bubbleStyle' = p.style
                  /\ bubbleTail' = p.tail
            /\ bubbleShown' = TRUE
            /\ IF Truthy(currentJoke)
                 THEN /\ speechContent' = currentJoke
                      /\ UNCHANGED <<isLoading, bubbleLoading, inflight, dropped, rejected>>
                 ELSE IF ~isLoading THEN loadNewJoke ELSE UNCHANGED loadVars
  /\ UNCHANGED <<bubbleEnv, currentJoke, isMobile, supportsHover, touchListener,
                 hoverListeners, jokeContent, hideTimers, inThrottle,
                 throttleTimer, lastThrottledRun>>
  /\ UNCHANGED <<preloaderVars, utilVars, switcherVars>>

\* handleMouseLeave()
handleMouseLeave ==
  /\ hoverListeners
  /\ IF isMobile
       THEN UNCHANGED <<isHovering, bubbleShown>>
       ELSE /\ isHovering' = FALSE
            /\ bubbleShown' = FALSE
  /\ UNCHANGED <<bubbleEnv, currentJoke, isLoading, isMobile, supportsHover,
                 touchListener, hoverListeners, speechContent, jokeContent,
                 bubbleLoading, bubbleTail, bubbleStyle, bubbleAsync, dropped, rejected>>
  /\ UNCHANGED <<preloaderVars, utilVars, switcherVars>>

\* A mousemove listener that runs positionBubble on every event
handleMouseMoveUnthrottled(g) ==
  /\ hoverListeners
  /\ IF TRUE
       THEN /\ LET p == positionBubble(isMobile, g, bubbleStyle, bubbleTail)
               IN /\ bubbleStyle' = p.style
                  /\ bubbleTail' = p.tail
            /\ inThrottle' = TRUE
            /\ throttleTimer' = now + throttleLimit
            /\ lastThrottledRun' = now
       ELSE UNCHANGED <<bubbleStyle, bubbleTail, inThrottle, throttleTimer,
                        lastThrottledRun>>
  /\ UNCHANGED <<bubbleEnv, bubbleState, touchListener, hoverListeners,
                 speechContent, jokeContent, bubbleShown, bubbleLoading,
                 inflight, hideTimers, dropped, rejected>>
  /\ UNCHANGED <<preloaderVars, utilVars, switcherVars>>

\* The mousemove listener: Utils.throttle((e) => this.positionBubble(e), 16)
handleMouseMove(g) ==
  /\ hoverListeners
  /\ IF ~inThrottle
       THEN /\ LET p == positionBubble(isMobile, g, bubbleStyle, bubbleTail)
               IN /\ bubbleStyle' = p.style
                  /\ bubbleTail' = p.tail
            /\ inThrottle' = TRUE
            /\ throttleTimer' = now + throttleLimit
            /\ lastThrottledRun' = now
       ELSE UNCHANGED <<bubbleStyle, bubbleTail, inThrottle, throttleTimer,
                        lastThrottledRun>>
  /\ UNCHANGED <<bubbleEnv, bubbleState, touchListener, hoverListeners,
                 speechContent, jokeContent, bubbleShown, bubbleLoading,
                 inflight, hideTimers, dropped, rejected>>
  /\ UNCHANGED <<preloaderVars, utilVars, switcherVars>>

\* Time passes between two pointer events: by a tick, or to the next
\* deadline when that is sooner; it does not pass a timer that is due
PointerTime ==
  /\ now < MaxMoveTime
  /\ \A d \in Deadlines : d > now
  /\ now' = IF \E d \in Deadlines : d < now + MoveTick
              THEN CHOOSE d \in Deadlines : \A e \in Deadlines : d <= e
              ELSE Min(now + MoveTick, MaxMoveTime)
  /\ UNCHANGED <<harness, elements, duration, phrases, configPhrases, isAnimating, startTime,
                 currentPhraseIndex, messageInterval, intervalDue, framePending,
                 safetyTimer, fadeTimers, initialized, rendered, completed,
                 translateY, messageText, fadeOut, preloaderHidden, contentShown,
                 bodyOverflowVisible, stopCalls, cancelCalls, fadeScheduled,
                 reveals, thrown, firstStopAt>>
  /\ UNCHANGED <<bubbleVars, utilVars, switcherVars>>

\* The timeout set by the throttled handler: inThrottle = false
ThrottleTimeout ==
  /\ throttleTimer # NoTime
  /\ throttleTimer <= now
  /\ throttleTimer' = NoTime
  /\ inThrottle' = FALSE
  /\ UNCHANGED <<bubbleEnv, bubbleState, bubbleDom, inflight, hideTimers,
                 lastThrottledRun, dropped, rejected>>
  /\ UNCHANGED <<preloaderVars, utilVars, switcherVars>>

\* Time passes between two taps: by a tick, or to the next deadline when
\* that is sooner; it does not pass a timer that is due
TapTime ==
  /\ now < MaxTapTime
  /\ \A d \in Deadlines : d > now
  /\ now' = IF \E d \in Deadlines : d < now + TapTick
              THEN CHOOSE d \in Deadlines : \A e \in Deadlines : d <= e
              ELSE Min(now + TapTick, MaxTapTime)
  /\ UNCHANGED <<harness, elements, duration, phrases, configPhrases, isAnimating, startTime,
                 currentPhraseIndex, messageInterval, intervalDue, framePending,
                 safetyTimer, fadeTimers, initialized, rendered, completed,
                 translateY, messageText, fadeOut, preloaderHidden, contentShown,
                 bodyOverflowVisible, stopCalls, cancelCalls, fadeScheduled,
                 reveals, thrown, firstStopAt>>
  /\ UNCHANGED <<bubbleVars, utilVars, switcherVars>>

\* The timeout set by handleClick on mobile: hideBubble().  The oldest
\* pending timeout runs; where the clock is not followed, at any step.
HideTimeout ==
  /\ hideTimers # <<>>
  /\ hideTimers' = Tail(hideTimers)
  /\ bubbleShown' = FALSE
  /\ UNCHANGED <<bubbleEnv, bubbleState, touchListener, hoverListeners,
                 speechContent, jokeContent, bubbleLoading, bubbleTail,
                 bubbleStyle, inflight, inThrottle, throttleTimer, lastThrottledRun,
                 dropped, rejected>>
  /\ UNCHANGED <<preloaderVars, utilVars, switcherVars>>

\* The same timeout where the clock is followed: it runs when it is due
HideTimeoutDue ==
  /\ hideTimers # <<>>
  /\ Head(hideTimers) <= now
  /\ HideTimeout

\* The viewport crosses 768px: the change listener of mobileQuery, bound by
\* setupResponsiveListeners when init() got that far
MobileQueryChange ==
  /\ narrow' = ~narrow
  /\ isMobile' = IF iconPresent THEN narrow' ELSE isMobile
  /\ UNCHANGED <<iconPresent, jokeRegionPresent, touch, hoverMedia,
                 isHovering, currentJoke, isLoading, supportsHover, bubbleDom,
                 bubbleAsync, dropped, rejected>>
  /\ UNCHANGED <<preloaderVars, utilVars, switcherVars>>

\* A change listener that binds or unbinds the hover listeners
HoverQueryChangeRebinds ==
  /\ hoverMedia' = ~hoverMedia
  /\ supportsHover' = IF iconPresent THEN hoverMedia' ELSE supportsHover
  /\ UNCHANGED <<iconPresent, jokeRegionPresent, touch, narrow,
                 isHovering, currentJoke, isLoading, isMobile, touchListener,
                 speechContent, jokeContent, bubbleShown, bubbleLoading,
                 bubbleTail, bubbleStyle, bubbleAsync, dropped, rejected>>
  /\ hoverListeners' = (iconPresent /\ hoverMedia')
  /\ UNCHANGED <<preloaderVars, utilVars, switcherVars>>

\* The pointer capability changes: the change listener of hoverQuery
HoverQueryChange ==
  /\ hoverMedia' = ~hoverMedia
  /\ supportsHover' = IF iconPresent THEN hoverMedia' ELSE supportsHover
  /\ UNCHANGED <<iconPresent, jokeRegionPresent, touch, narrow,
                 isHovering, currentJoke, isLoading, isMobile, bubbleDom,
                 bubbleAsync, dropped, rejected>>
  /\ UNCHANGED <<preloaderVars, utilVars, switcherVars>>

\* The state a constructor whose init() does not test the icon would leave
InitBubbleWithoutIconCheck ==
  /\ iconPresent \in BOOLEAN
  /\ jokeRegionPresent \in BOOLEAN
  /\ touch \in BOOLEAN
  /\ narrow \in BOOLEAN
  /\ hoverMedia \in BOOLEAN
  /\ isHovering = FALSE
  /\ currentJoke = Null
  /\ isLoading = FALSE
  /\ isMobile = isMobileDevice
  /\ supportsHover = supportsHoverQuery
  /\ touchListener = isMobileDevice
  /\ hoverListeners = supportsHoverQuery
  /\ speechContent = LoadingJoke
  /\ jokeContent = IF jokeRegionPresent THEN ServerText ELSE NoElement
  /\ bubbleShown = FALSE
  /\ bubbleLoading = FALSE
  /\ bubbleTail = [left |-> FALSE, right |-> FALSE]
  /\ bubbleStyle = [left |-> Unset, top |-> Unset, transform |-> ""]
  /\ inflight = [initial |-> 1, new |-> 0]
  /\ hideTimers = <<>>
  /\ inThrottle = FALSE
  /\ throttleTimer = NoTime
  /\ lastThrottledRun = NoTime
  /\ dropped = FALSE
  /\ rejected = FALSE

\* The state new SpeechBubbleController(apiUrl) leaves: the constructor,
\* init(), createSpeechBubble(), setupEventListeners(), loadInitialJoke() up
\* to its await, setupResponsiveListeners()
InitBubble ==
  /\ iconPresent \in BOOLEAN
  /\ jokeRegionPresent \in BOOLEAN
  /\ touch \in BOOLEAN
  /\ narrow \in BOOLEAN
  /\ hoverMedia \in BOOLEAN
  /\ isHovering = FALSE
  /\ currentJoke = Null
  /\ isLoading = FALSE
  /\ isMobile = isMobileDevice
  /\ supportsHover = supportsHoverQuery
  /\ touchListener = (iconPresent /\ isMobileDevice)
  /\ hoverListeners = (iconPresent /\ supportsHoverQuery)
  /\ speechContent = IF iconPresent THEN LoadingJoke ELSE NoElement
  /\ jokeContent = IF jokeRegionPresent THEN ServerText ELSE NoElement
  /\ bubbleShown = FALSE
  /\ bubbleLoading = FALSE
  /\ bubbleTail = [left |-> FALSE, right |-> FALSE]
  /\ bubbleStyle = [left |-> Unset, top |-> Unset, transform |-> ""]
  /\ inflight = [initial |-> IF iconPresent THEN 1 ELSE 0, new |-> 0]
  /\ hideTimers = <<>>
  /\ inThrottle = FALSE
  /\ throttleTimer = NoTime
  /\ lastThrottledRun = NoTime
  /\ dropped = FALSE
  /\ rejected = FALSE

\* Pointer moves over the icon: they change the bubble's placement and the
\* throttle flag, which nothing else of the controller reads
NextPointerMove ==
  \/ \E g \in PointerGeometries : handleMouseMove(g)
  \/ ThrottleTimeout
  \/ PointerTime

NextBubble ==
  \/ \E ev \in {"click", "touchstart"} : handleClick(ev)
  \/ \E g \in PointerGeometries : handleMouseEnter(g)
  \/ handleMouseLeave
  \/ HideTimeout
  \/ MobileQueryChange
  \/ HoverQueryChange
  \/ CallLoadNewJoke
  \/ SettleFetch

\* ------------------------------------------------------------------------
\* Monitoring switcher
\* ------------------------------------------------------------------------

\* content[state].title
TitleOf(st) == IF st = "highlight" THEN "Observability" ELSE "Monitoring"

\* render(state) throws: the title element exists and the elements written
\* after it do not
RenderThrows == cardTitle /\ ~cardRest

\* render(state): nothing without the title element; else the title is
\* written first and then the other elements
render(st) ==
  IF ~cardTitle
    THEN UNCHANGED <<cardTitleText, switcherThrown>>
    ELSE /\ cardTitleText' = TitleOf(st)
         /\ switcherThrown' = (switcherThrown \/ RenderThrows)

\* switch()
switch ==
  /\ switcherState' = IF switcherState = "prom" THEN "highlight" ELSE "prom"
  /\ render(switcherState')

\* setInterval(() => this.switch(), this.switchDuration): a handle that no
\* live interval has
NewHandle ==
  CHOOSE n \in 1..(Len(switchTimers) + 1) :
    \A i \in 1..Len(switchTimers) : switchTimers[i].id # n

\* The part of start() after its guard: switch(), then the interval is set
\* unless switch() threw
StartSwitching ==
  /\ Len(switchTimers) < MaxIntervals
  /\ switch
  /\ IF RenderThrows
       THEN UNCHANGED <<switchInterval, switchTimers>>
       ELSE /\ switchInterval' = NewHandle
            /\ switchTimers' =
                 Append(switchTimers,
                        [id |-> NewHandle, due |-> now + switchDuration])
  /\ UNCHANGED <<cardTitle, cardRest>>

\* A start() without the test of this.interval
switcherStartUnguarded == StartSwitching

\* start()
switcherStart ==
  IF switchInterval # 0 THEN UNCHANGED switcherVars ELSE StartSwitching

\* stop()
switcherStop ==
  IF switchInterval = 0
    THEN UNCHANGED switcherVars
    ELSE /\ switchTimers' =
              SelectSeq(switchTimers, LAMBDA t : t.id # switchInterval)
         /\ switchInterval' = 0
         /\ UNCHANGED <<switcherState, cardTitle, cardRest, cardTitleText,
                        switcherThrown>>

\* The listener of 'shown.bs.tab' of initializeApp
TabShown(target, relatedTarget) ==
  /\ IF target = "monitoring-tab"
       THEN switcherStart
       ELSE IF relatedTarget = "monitoring-tab"
         THEN switcherStop
         ELSE UNCHANGED switcherVars
  /\ UNCHANGED <<preloaderVars, bubbleVars, utilVars>>

\* The listener of 'hidden.bs.tab' of initializeApp
TabHidden(target) ==
  /\ IF target = "monitoring-tab" THEN switcherStop ELSE UNCHANGED switcherVars
  /\ UNCHANGED <<preloaderVars, bubbleVars, utilVars>>

\* An interval of the switcher falls due: its callback runs switch()
SwitchTimeout ==
  /\ \E i \in 1..Len(switchTimers) :
       /\ switchTimers[i].due <= now
       /\ switchTimers' =
            [switchTimers EXCEPT ![i].due = @ + switchDuration]
  /\ switch
  /\ UNCHANGED <<switchInterval, cardTitle, cardRest>>
  /\ UNCHANGED <<preloaderVars, bubbleVars, utilVars>>

\* Time passes on the page of the monitoring card: by a tick, or to the
\* next deadline when that is sooner; it does not pass a timer that is due
SwitcherTime ==
  /\ now < MaxSwitchTime
  /\ \A d \in Deadlines : d > now
  /\ now' = IF \E d \in Deadlines : d < now + SwitchTick
              THEN CHOOSE d \in Deadlines : \A e \in Deadlines : d <= e
              ELSE Min(now + SwitchTick, MaxSwitchTime)
  /\ UNCHANGED <<harness, elements, duration, phrases, configPhrases, isAnimating, startTime,
                 currentPhraseIndex, messageInterval, intervalDue, framePending,
                 safetyTimer, fadeTimers, initialized, rendered, completed,
                 translateY, messageText, fadeOut, preloaderHidden, contentShown,
                 bodyOverflowVisible, stopCalls, cancelCalls, fadeScheduled,
                 reveals, thrown, firstStopAt>>
  /\ UNCHANGED <<bubbleVars, utilVars, switcherVars>>

\* The ids of the tabs an event names
TabIds == {"monitoring-tab", "other-tab"}

\* The state new MonitoringSwitcher() leaves
InitSwitcher ==
  /\ switcherState = "prom"
  /\ switchInterval = 0
  /\ switchTimers = <<>>
  /\ cardTitle \in BOOLEAN
  /\ cardRest \in BOOLEAN
  /\ cardTitleText = IF cardTitle THEN ServerText ELSE NoElement
  /\ switcherThrown = FALSE

\* A page without the monitoring card
NoCard == ~cardTitle /\ ~cardRest

NextSwitcher ==
  \/ \E target, relatedTarget \in TabIds : TabShown(target, relatedTarget)
  \/ \E target \in TabIds : TabHidden(target)
  \/ SwitchTimeout
  \/ SwitcherTime

vars == <<preloaderVars, bubbleVars, utilVars, switcherVars>>

Init == InitPreloader /\ InitBubble /\ InitUtils /\ InitSwitcher
Next ==
  \/ NextPreloader
  \/ NextBubble
  \/ NextPointerMove
  \/ CallShuffle
  \/ NextSwitcher
Spec == Init /\ [][Next]_vars

\* The preloader alone: a page without the joke icon, whose speech bubble
\* controller aborted its construction
InitPreloaderAlone ==
  /\ InitPreloader
  /\ InitBubble
  /\ ~iconPresent /\ ~jokeRegionPresent /\ ~touch /\ ~narrow /\ ~hoverMedia
  /\ InitUtils /\ callerArray = <<>>
  /\ InitSwitcher /\ NoCard
SpecPreloader == InitPreloaderAlone /\ [][NextPreloader]_vars

\* The speech bubble controller alone, its clicks, taps, hovers, capability
\* changes and fetches: a page without the preloader region, whose
\* PreloaderAnimation is never initialized
InitBubbleAlone ==
  /\ InitBubble
  /\ InitPreloader
  /\ harness = "direct"
  /\ ~elements.preloader
  /\ duration = animationDuration
  /\ phrases = ConfigPhrases
  /\ InitUtils /\ callerArray = <<>>
  /\ InitSwitcher /\ NoCard
SpecBubble == InitBubbleAlone /\ [][NextBubble]_vars

\* Utils.shuffleArray alone, called once on each list: the preloader and the
\* controller are those of a page with neither the preloader region nor
\* the icon
InitShuffleAlone ==
  /\ InitUtils
  /\ InitBubble
  /\ InitPreloader
  /\ harness = "direct"
  /\ ~elements.preloader
  /\ duration = animationDuration
  /\ phrases = ConfigPhrases
  /\ ~iconPresent /\ ~jokeRegionPresent /\ ~touch /\ ~narrow /\ ~hoverMedia
  /\ InitSwitcher /\ NoCard
SpecShuffle == InitShuffleAlone /\ [][CallShuffle]_vars

\* The positioning of the bubble: a controller whose hover listeners are
\* attached, the pointer entering, moving over and leaving the icon at the
\* geometries above, and the viewport crossing the mobile width
InitPosition ==
  /\ InitBubbleAlone
  /\ iconPresent /\ jokeRegionPresent /\ hoverMedia
NextPosition ==
  \/ \E g \in Geometries : handleMouseEnter(g)
  \/ \E g \in Geometries : handleMouseMove(g)
  \/ ThrottleTimeout
  \/ PointerTime
  \/ handleMouseLeave
  \/ MobileQueryChange
SpecPosition == InitPosition /\ [][NextPosition]_vars

\* Taps on the icon with the clock followed: the taps and clicks, the
\* fetches they start, the time between them and the hide timeouts as they
\* fall due, on a page with the icon and the joke region and no hover
InitTap ==
  /\ InitBubbleAlone
  /\ iconPresent /\ jokeRegionPresent /\ ~hoverMedia
NextTap ==
  \/ \E ev \in {"click", "touchstart"} : handleClick(ev)
  \/ SettleFetch
  \/ HideTimeoutDue
  \/ TapTime
SpecTap == InitTap /\ [][NextTap]_vars

\* The monitoring switcher alone, the tab events, its interval and the
\* clock: a page with neither the preloader region nor the icon
InitSwitcherAlone ==
  /\ InitSwitcher
  /\ InitPreloader
  /\ harness = "direct"
  /\ ~elements.preloader
  /\ duration = animationDuration
  /\ phrases = ConfigPhrases
  /\ InitBubble
  /\ ~iconPresent /\ ~jokeRegionPresent /\ ~touch /\ ~narrow /\ ~hoverMedia
  /\ InitUtils /\ callerArray = <<>>
SpecSwitcher == InitSwitcherAlone /\ [][NextSwitcher]_vars

\* The speech bubble controller when every fetch eventually settles
FairBubble == SpecBubble /\ WF_vars(SettleFetch)

\* ------------------------------------------------------------------------
\* Claims about the joke fetcher
\* ------------------------------------------------------------------------

\* C1: in every reachable state at most one GET of the controller is
\* outstanding, the initial load and the reloads counted together.
C1_AtMostOneOutstanding == Outstanding <= 1

\* Everything of the controller a dropped call could touch
ControllerState == <<bubbleEnv, bubbleState, bubbleDom, bubbleAsync>>

\* C2: a loadNewJoke() call made while isLoading is true issues no request
\* and changes neither isLoading, the stored joke nor any text; no step taken
\* while isLoading is true issues a reload (the call is not queued), so at
\* most one reload is ever outstanding.
C2_SecondCallDropped ==
  [][/\ (isLoading /\ CallLoadNewJoke) => UNCHANGED ControllerState
     /\ isLoading => inflight'.new <= inflight.new
     /\ inflight'.new <= 1]_vars

\* C2: a second call was made, and dropped, while the first reload is out.
C2_Witness == dropped /\ isLoading /\ inflight.new = 1 /\ iconPresent

\* C3: the settling of a reload's fetch clears isLoading whatever the
\* outcome, and when every fetch settles a reload in progress leads to
\* isLoading being false again.
C3_GuardCleared ==
  /\ [][inflight'.new < inflight.new => ~isLoading']_vars
  /\ (isLoading /\ inflight.new > 0) ~> ~isLoading

\* C3: a reload is in progress that was started after an earlier reload
\* had failed (the page region still shows its message).
C3_Witness == isLoading /\ inflight.new = 1 /\ jokeContent = errorMessage

\* C4: the settling of a reload's fetch with a failure leaves the message
\* in the bubble and in the page region, no stored joke, and the guard clear.
C4_ReloadFailure ==
  [][inflight'.new < inflight.new =>
       \A o \in Outcomes :
         (o.kind # "ok" /\ Settle("new", o)) =>
            /\ speechContent' = errorMessage
            /\ jokeRegionPresent => jokeContent' = errorMessage
            /\ currentJoke' = Null
            /\ ~isLoading']_vars

\* C4: a reload has failed on a page that has both regions.
C4_Witness ==
  /\ speechContent = errorMessage /\ jokeContent = errorMessage
  /\ currentJoke = Null /\ ~isLoading /\ Outstanding = 0

\* C5: the settling of the initial fetch with a failure stores the fallback
\* joke and shows it in the bubble, writes nothing to the page region, and
\* no settling of the initial fetch writes the failure message anywhere.
C5_InitialFailure ==
  [][inflight'.initial < inflight.initial =>
       \A o \in Outcomes :
         Settle("initial", o) =>
            /\ o.kind # "ok" => /\ currentJoke' = fallbackJoke
                                /\ speechContent' = fallbackJoke
                                /\ jokeContent' = jokeContent
            /\ speechContent' # errorMessage
            /\ jokeContent' = errorMessage => jokeContent = errorMessage]_vars

\* C5: the initial load has failed and the fallback is stored and shown.
C5_Witness ==
  /\ currentJoke = fallbackJoke /\ speechContent = fallbackJoke
  /\ inflight.initial = 0 /\ jokeContent = ServerText

\* The value the claim C6 names: content when the field is present,
\* otherwise the first value
ContentIfPresent(data) ==
  IF \E i \in 1..Len(data) : data[i][1] = "content"
    THEN Field(data, "content") ELSE FirstValue(data)

FairPreloader ==
  /\ SpecPreloader
  /\ WF_vars(AdvanceTime)
  /\ WF_vars(SafetyTimeout)
  /\ WF_vars(FadeTimeout)
  /\ WF_vars(IntervalTick)
  /\ WF_vars(AnimationFrame)

\* ------------------------------------------------------------------------
\* Claims about the preloader
\* ------------------------------------------------------------------------

\* C7: with all regions present, a second stop() on the instance does not
\* throw, does not cancel the interval handle again, and schedules no second
\* hide/reveal: the content is revealed once.
C7_StopIdempotent ==
  (validateElements /\ stopCalls >= 2) =>
     /\ ~thrown
     /\ cancelCalls <= 1
     /\ fadeScheduled <= 1
     /\ reveals <= 1

\* C8: on a page where a required region is missing, initialize() renders
\* nothing and starts no timer, and no later preloader callback throws.
C8_MissingRegionSilent ==
  (harness = "page" /\ ~validateElements) =>
     /\ rendered = 0 /\ ~isAnimating /\ startTime = NoTime
     /\ intervalDue = NoTime /\ ~framePending
     /\ ~thrown

OnPage == harness = "page" /\ validateElements
HiddenAndShown == preloaderHidden /\ contentShown

NeverStarted == harness = "direct" /\ validateElements /\ startTime = NoTime

\* C10: stop() on an instance whose start() never ran, all regions present,
\* does not throw, cancels nothing, leaves isAnimating false, starts the
\* fade-out, and the region is hidden and the content shown once
\* fadeOutDuration has passed.
C10_StopBeforeStart ==
  /\ [][(NeverStarted /\ stopCalls' > stopCalls) =>
          /\ ~thrown'
          /\ cancelCalls' = cancelCalls
          /\ ~isAnimating'
          /\ fadeOut'
          /\ fadeTimers' = Append(fadeTimers, now + fadeOutDuration)]_vars
  /\ []((NeverStarted /\ firstStopAt # NoTime /\ now > firstStopAt + fadeOutDuration)
          => HiddenAndShown /\ ~thrown)

\* C10: stop() ran before start(), nothing was cancelled, and the content
\* is revealed.
C10_Witness ==
  /\ NeverStarted /\ stopCalls >= 1 /\ cancelCalls = 0
  /\ HiddenAndShown /\ ~isAnimating /\ ~thrown

\* ------------------------------------------------------------------------
\* Claims about the utilities and the positioning
\* ------------------------------------------------------------------------

\* The list 1, 2, ..., n: shuffling it gives the ordering of the positions
Positions(n) == [i \in 1..n |-> i]
Orderings(n) == {p \in [1..n -> 1..n] : \A i, j \in 1..n : p[i] = p[j] => i = j}
Occurrences(a, x) == Cardinality({i \in 1..Len(a) : a[i] = x})

Positioned(g) == handleMouseEnter(g) \/ (~inThrottle /\ handleMouseMove(g))

\* C12: off mobile, with twice the proposal 2 * iconLeft + iconWidth -
\* bubbleWidth: a proposal below 10 gives left = 10, tail-left set and
\* tail-right cleared; else a proposal with proposal + bubbleWidth above
\* viewportWidth - 10 gives left = viewportWidth - bubbleWidth - 10,
\* tail-right set and tail-left cleared; else left is the proposal and both
\* flags are cleared.
C12_HorizontalClamp ==
  [][~isMobile => \A g \in Geometries : Positioned(g) =>
       LET w == BubbleWidth(g)
           twice == 2 * g.iconLeft + g.iconWidth - w
       IN IF twice < 2 * 10
            THEN /\ bubbleStyle'.left = Px(10)
                 /\ bubbleTail'.left /\ ~bubbleTail'.right
            ELSE IF twice + 2 * w > 2 * (g.viewportWidth - 10)
              THEN /\ bubbleStyle'.left = Px(g.viewportWidth - w - 10)
                   /\ bubbleTail'.right /\ ~bubbleTail'.left
              ELSE /\ 2 * bubbleStyle'.left.v = twice
                   /\ bubbleStyle'.left.unit = "px"
                   /\ ~bubbleTail'.left /\ ~bubbleTail'.right]_vars

\* C12: the icon near the left edge of the 1000-wide viewport and a
\* 250-wide bubble: left = 10 with tail-left
C12_Witness ==
  /\ ~isMobile /\ bubbleShown
  /\ bubbleStyle.left = Px(10) /\ bubbleTail.left /\ ~bubbleTail.right

\* positionBubble ran on the mobile branch: only the pointer-move listener
\* calls it there
PositionedOnMobile(g) == isMobile /\ ~inThrottle /\ handleMouseMove(g)

\* C13 as stated: off mobile top is iconTop - bubbleHeight - 15 unless that
\* is above the viewport's upper edge (negative), and then top is
\* iconBottom + 15; on mobile left is 50%, shifted back by half the bubble's
\* width, and top is iconBottom + 15.
C13_AsStated ==
  [][\A g \in Geometries :
       /\ (~isMobile /\ Positioned(g)) =>
            LET proposed == g.iconTop - BubbleHeight(g) - 15
            IN bubbleStyle'.top =
                 IF proposed < 0 THEN Px(g.iconTop + g.iconHeight + 15)
                                 ELSE Px(proposed)
       /\ PositionedOnMobile(g) =>
            /\ bubbleStyle'.left = Percent(50)
            /\ bubbleStyle'.transform = "translateX(-50%)"
            /\ bubbleStyle'.top = Px(g.iconTop + g.iconHeight + 15)]_vars

\* C13: off mobile top is iconTop - bubbleHeight - 15 unless that is less
\* than the margin 10, and then top is iconBottom + 15; on mobile left is
\* 50%, shifted back by half the bubble's width, and top is iconBottom + 15.
C13_VerticalFlip ==
  [][\A g \in Geometries :
       /\ (~isMobile /\ Positioned(g)) =>
            LET proposed == g.iconTop - BubbleHeight(g) - 15
            IN bubbleStyle'.top =
                 IF proposed < 10 THEN Px(g.iconTop + g.iconHeight + 15)
                                  ELSE Px(proposed)
       /\ PositionedOnMobile(g) =>
            /\ bubbleStyle'.left = Percent(50)
            /\ bubbleStyle'.transform = "translateX(-50%)"
            /\ bubbleStyle'.top = Px(g.iconTop + g.iconHeight + 15)]_vars

\* C13: the icon at top 100 and an 80-high bubble, proposed top 5: the
\* bubble is placed below the icon, at 155
C13_Witness ==
  /\ ~isMobile /\ bubbleShown
  /\ bubbleStyle.top = Px(155)

\* The placement a controller that never positioned its bubble gets from
\* positionBubble at geometry g
FreshPlacement(g) ==
  positionBubble(isMobile, g, [left |-> Unset, top |-> Unset, transform |-> ""],
                 [left |-> FALSE, right |-> FALSE])

\* C14: whenever positionBubble runs, the style and the tail flags it
\* leaves are those a controller without earlier placements gets for the
\* same geometry and the same isMobile: the history does not show.
C14_Memoryless ==
  [][\A g \in Geometries :
       (Positioned(g) /\ (isMobile => PositionedOnMobile(g))) =>
          /\ bubbleStyle' = FreshPlacement(g).style
          /\ bubbleTail' = FreshPlacement(g).tail]_vars

\* ------------------------------------------------------------------------
\* Claims about the construction and the pointer handlers
\* ------------------------------------------------------------------------

\* C15: a controller constructed without the icon has no bubble element,
\* no touch or hover listener, reacts to no media-query change and never has
\* a request outstanding; a controller constructed with the icon has
\* exactly one initial request outstanding after construction and never
\* issues another initial request.
C15_ConstructionNeedsIcon ==
  /\ (iconPresent => inflight = [initial |-> 1, new |-> 0])
  /\ [](~iconPresent =>
          /\ speechContent = NoElement /\ ~bubbleShown /\ ~bubbleLoading
          /\ ~touchListener /\ ~hoverListeners
          /\ Outstanding = 0)
  /\ [][/\ ~iconPresent => isMobile' = isMobile /\ supportsHover' = supportsHover
        /\ inflight'.initial <= inflight.initial]_vars

\* C15: without the icon the viewport became narrow and the controller did
\* not follow; nothing was requested
C15_Witness ==
  /\ ~iconPresent /\ ~touch /\ narrow /\ ~isMobile
  /\ speechContent = NoElement /\ Outstanding = 0

\* C16: in every state in which the hover listeners are attached, the
\* pointer-leave handler run in that state leaves isHovering false and the
\* bubble hidden.
C16_LeaveHides ==
  hoverListeners => ENABLED (handleMouseLeave /\ ~isHovering' /\ ~bubbleShown')

\* A step that runs an input handler or a direct call of loadNewJoke()
InputStep ==
  \/ \E ev \in {"click", "touchstart"} : handleClick(ev)
  \/ \E g \in PointerGeometries : handleMouseEnter(g)
  \/ CallLoadNewJoke

C18_ShuffleFixed ==
  /\ [](configPhrases = ConfigPhrases)
  /\ [][phrases' = phrases /\ configPhrases' = configPhrases]_vars

\* C18: the list was shuffled into another order, rows were rendered and
\* completed, the message advanced and stop() ran
C18_Witness ==
  /\ phrases # ConfigPhrases /\ configPhrases = ConfigPhrases
  /\ rendered = Len(phrases) /\ completed # {}
  /\ currentPhraseIndex # 0 /\ stopCalls > 0

\* C19: the progress of every frame is within [0, 1] (translateY holds
\* -progress * length * verticalSpacing, times the duration), the upward
\* translation -translateY never decreases from one step to the next, and a
\* row that has 'completed' keeps it.
C19_NeverBackward ==
  /\ [](/\ translateY <= 0
        /\ -translateY <= duration * (Len(phrases) * verticalSpacing))
  /\ [][/\ translateY' <= translateY
        /\ completed \subseteq completed']_vars

\* C19: the playback advanced over several frames and every row completed
C19_Witness ==
  /\ isAnimating /\ now - startTime >= 2 * Tick
  /\ -translateY >= 2 * Tick * (Len(phrases) * verticalSpacing)
  /\ completed = 0..(Len(phrases) - 1)

\* C20: on the page the instance is running after page-ready exactly when
\* initialize() found its regions; afterwards isAnimating never changes from
\* false to true, and it changes from true to false only in a stop(), that
\* of the natural completion or that of the safety timer; so it is true
\* during one interval at most.
C20_Lifecycle ==
  /\ (harness = "page" => (isAnimating <=> validateElements))
  /\ [][harness = "page" =>
          /\ ~isAnimating => ~isAnimating'
          /\ (isAnimating /\ ~isAnimating') => stopCalls' = stopCalls + 1]_vars

\* C20: the playback ended and stop() ran a second time: the instance
\* stayed stopped
C20_Witness ==
  /\ harness = "page" /\ validateElements
  /\ startTime # NoTime /\ ~isAnimating /\ stopCalls = 2

\* ------------------------------------------------------------------------
\* Further claims about the fetcher, the preloader and the handlers
\* ------------------------------------------------------------------------

\* C21: when the fetch of a reload fails, the bubble shows the error
\* message and the stored joke is what it was before the reload settled;
\* when the initial fetch fails, the stored joke is the fallback.
C21_ReloadFailureKeepsJoke ==
  [][inflight' # inflight => \A o \in Outcomes : o.kind # "ok" =>
       /\ Settle("new", o) =>
            speechContent' = errorMessage /\ currentJoke' = currentJoke
       /\ Settle("initial", o) => currentJoke' = fallbackJoke]_vars

\* The state the preloader ends in
Finished ==
  /\ ~isAnimating /\ intervalDue = NoTime
  /\ preloaderHidden /\ contentShown /\ bodyOverflowVisible

\* C22: on a page with all regions, whichever of the natural completion and
\* the safety timer calls stop() first and whether or not the other calls it
\* too, the run ends, and stays, with isAnimating false, the interval
\* cancelled, the loading region hidden, the content shown and scrolling
\* restored; the loading region is not hidden before, and is hidden from,
\* fadeOutDuration after the first stop().
C22_StopRace ==
  /\ (OnPage => <>[]Finished)
  /\ [](OnPage /\ firstStopAt # NoTime =>
          /\ ~isAnimating /\ intervalDue = NoTime
          /\ now < firstStopAt + fadeOutDuration => ~preloaderHidden
          /\ now > firstStopAt + fadeOutDuration => Finished)

\* C22: the natural completion and the safety timer both called stop(), at
\* the same instant, and the run has ended
C22_Witness ==
  /\ OnPage /\ duration = preloaderDelay
  /\ stopCalls = 2 /\ safetyTimer = NoTime /\ fadeTimers = <<>>
  /\ Finished

\* C23: once stop() has run, and as long as the instance is not started
\* afterwards, no step changes currentPhraseIndex, the status message, the
\* translation of the phrase stack or a completed flag, no frame is
\* scheduled, and a frame callback that runs leaves none scheduled.
C23_QuietAfterStop ==
  [][(stopCalls > 0 /\ ~isAnimating /\ ~isAnimating') =>
       /\ UNCHANGED <<currentPhraseIndex, messageText, translateY, completed>>
       /\ framePending' => framePending
       /\ AnimationFrame => ~framePending']_vars

\* C23: a running playback was stopped with a frame still registered, and
\* time went on past the next period of the interval
C23_Witness ==
  /\ validateElements /\ startTime # NoTime /\ stopCalls > 0 /\ ~isAnimating
  /\ ~framePending
  /\ now >= firstStopAt + messageIntervalPeriod

\* C24: currentPhraseIndex is within 0 .. phraseCount - 1 and the indexes of
\* the next phraseCount ticks are all of them; a tick sets the index to
\* (previous + 1) mod phraseCount and writes the phrase at that index of the
\* shuffled list, followed by "...", into the status message.
C24_MessageRotation ==
  /\ [](/\ currentPhraseIndex \in 0..(Len(phrases) - 1)
        /\ {(currentPhraseIndex + k) % Len(phrases) : k \in 1..Len(phrases)}
             = 0..(Len(phrases) - 1)
        /\ \A i, j \in 1..Len(phrases) : phrases[i] = phrases[j] => i = j)
  /\ [][(intervalDue # NoTime /\ intervalDue' > intervalDue) =>
          /\ currentPhraseIndex' = (currentPhraseIndex + 1) % Len(phrases)
          /\ messageText' = phrases[currentPhraseIndex' + 1] \o "..."]_vars

\* C24: the interval has ticked once more than there are phrases, so the
\* index has wrapped around and the first phrase shown is shown again
C24_Witness ==
  /\ startTime # NoTime
  /\ intervalDue = startTime + (Len(phrases) + 2) * messageIntervalPeriod
  /\ currentPhraseIndex = 1
  /\ messageText = phrases[2] \o "..."

\* C25: the rendered list has one row per phrase, row i at slot i * 50; a row
\* is completed exactly when progress * itemCount - i > 0 held at the latest
\* frame that updated the stack (the progress of frames never decreases), so
\* nothing is completed after initialize() and the completed rows are a
\* prefix; a frame with progress below 1 schedules the next frame, a frame
\* with progress 1 calls stop() and schedules none.
C25_RowsAndFrames ==
  /\ [](/\ initialized /\ validateElements =>
             /\ Len(PhraseItems) = Len(phrases)
             /\ \A i \in 1..Len(phrases) :
                  /\ PhraseItems[i].text = phrases[i] \o "..."
                  /\ PhraseItems[i].slot = (i - 1) * 50
        /\ \A i \in 0..(rendered - 1) :
             i \in completed <=> (-translateY) - i * duration * verticalSpacing > 0
        /\ \E k \in 0..rendered : completed = 0..(k - 1))
  /\ [][(isAnimating /\ AnimationFrame) =>
          IF now - startTime < duration
            THEN framePending' /\ stopCalls' = stopCalls
            ELSE ~framePending' /\ stopCalls' = stopCalls + 1
                 /\ UNCHANGED <<translateY, completed>>]_vars
  /\ [][(~initialized /\ initialized') => completed' = {}]_vars

\* C25: a frame below progress 1 completed the first row and not the second,
\* and the frame at progress 1 then called stop()
C25_Witness ==
  /\ rendered = Len(phrases) /\ rendered > 1
  /\ completed = {0}
  /\ stopCalls = 1 /\ ~framePending /\ ~isAnimating
  /\ now = startTime + duration

\* What the claim says a pointer-enter at geometry g leaves
EnterOutcome(g) ==
  /\ isHovering' /\ bubbleShown'
  /\ LET p == positionBubble(FALSE, g, bubbleStyle, bubbleTail)
     IN bubbleStyle' = p.style /\ bubbleTail' = p.tail
  /\ IF Truthy(currentJoke)
       THEN speechContent' = currentJoke /\ inflight' = inflight
                                         /\ isLoading' = isLoading
       ELSE IF isLoading
         THEN inflight' = inflight /\ speechContent' = speechContent
         ELSE /\ inflight' = [inflight EXCEPT !.new = @ + 1]
              /\ isLoading'

\* C26: in every state of a non-mobile controller with hover listeners, a
\* pointer-enter leaves isHovering true and the bubble positioned and shown;
\* with a joke stored the bubble's text is that joke and no request starts;
\* with none stored one reload starts, unless one is loading, and then none.
C26_PointerEnter ==
  (hoverListeners /\ ~isMobile) =>
     \A g \in PointerGeometries :
        /\ ENABLED handleMouseEnter(g)
        /\ ~ENABLED (handleMouseEnter(g) /\ ~EnterOutcome(g))

\* C26: the pointer entered with a joke stored, and the bubble shows it
\* without a request outstanding
C26_Witness ==
  /\ hoverListeners /\ ~isMobile /\ isHovering /\ bubbleShown
  /\ Truthy(currentJoke) /\ speechContent = currentJoke
  /\ bubbleStyle.left # Unset
  /\ Outstanding = 0

\* What the claim says a click or tap leaves
ClickOutcome ==
  IF isLoading
    THEN bubbleVars' = bubbleVars
    ELSE /\ inflight' = [inflight EXCEPT !.new = @ + 1]
         /\ isLoading'
         /\ IF isMobile
              THEN bubbleShown' /\ hideTimers' = Append(hideTimers, now + 5000)
              ELSE UNCHANGED <<bubbleShown, hideTimers>>

\* C27: a click or tap run while isLoading is false starts exactly one reload
\* and sets isLoading, so that the second handler of the same tap starts
\* none; on mobile it also shows the bubble and sets one hide timer; a click
\* or tap run while isLoading is true changes nothing.
C27_ClickOrTap ==
  \A ev \in {"click", "touchstart"} :
     ~ENABLED (handleClick(ev) /\ ~ClickOutcome)

\* C27: a tap on mobile started one reload, showed the bubble and set the
\* hide timer, and the click of the same tap found isLoading true
C27_Witness ==
  /\ isMobile /\ touchListener /\ isLoading
  /\ inflight.new = 1 /\ bubbleShown /\ hideTimers = <<now + 5000>>
  /\ ENABLED (handleClick("click") /\ bubbleVars' = bubbleVars)

\* C28: the hover listeners are attached at construction exactly when the
\* icon exists and supportsHover is true; no step attaches or removes a
\* listener; a media-query change changes only the query's state and the
\* flag read from it; a controller without hover listeners is never hovering
\* and no pointer-enter can run on it.
C28_ListenersFixed ==
  /\ ((iconPresent /\ supportsHover) <=> hoverListeners)
  /\ [][UNCHANGED <<hoverListeners, touchListener>>]_vars
  /\ [][(narrow' # narrow) =>
          UNCHANGED <<hoverMedia, supportsHover, bubbleDom, bubbleAsync,
                      isHovering, currentJoke, isLoading>>]_vars
  /\ [][(hoverMedia' # hoverMedia) =>
          UNCHANGED <<narrow, isMobile, bubbleDom, bubbleAsync,
                      isHovering, currentJoke, isLoading>>]_vars
  /\ [](~hoverListeners =>
          /\ ~isHovering
          /\ \A g \in PointerGeometries : ~ENABLED handleMouseEnter(g))

\* C28: a controller constructed without hover support whose supportsHover
\* has since become true, on a wide viewport: it has no hover listeners and
\* its bubble is hidden
C28_Witness ==
  /\ iconPresent /\ supportsHover /\ ~isMobile
  /\ ~hoverListeners /\ ~isHovering /\ ~bubbleShown

\* C29: the first pointer-move runs positionBubble at once; while less than
\* 16 ms have passed since a run the flag is set and a pointer-move changes
\* nothing; the timeout that clears the flag runs nothing, so a dropped move
\* is not made up for later; two runs caused by pointer-moves are at least
\* 16 ms apart.
C29_LeadingEdgeThrottle ==
  /\ [](/\ lastThrottledRun = NoTime => ~inThrottle
        /\ (lastThrottledRun # NoTime /\ now - lastThrottledRun < 16) => inThrottle
        /\ inThrottle =>
             \A g \in Geometries :
                ~ENABLED (handleMouseMove(g) /\ bubbleVars' # bubbleVars))
  /\ [][\A g \in Geometries : (~inThrottle /\ handleMouseMove(g)) =>
          /\ lastThrottledRun' = now
          /\ LET p == positionBubble(isMobile, g, bubbleStyle, bubbleTail)
             IN bubbleStyle' = p.style /\ bubbleTail' = p.tail]_vars
  /\ [][(inThrottle /\ ~inThrottle') =>
          UNCHANGED <<bubbleStyle, bubbleTail, lastThrottledRun>>]_vars
  /\ [][(lastThrottledRun # NoTime /\ lastThrottledRun' # lastThrottledRun) =>
          lastThrottledRun' - lastThrottledRun >= 16]_vars

\* C29: positionBubble has run a second time for a pointer-move, later than
\* the first, and a pointer-move arriving now, less than 16 ms after that
\* run, is dropped
C29_Witness ==
  /\ lastThrottledRun >= throttleLimit
  /\ now > lastThrottledRun /\ now < lastThrottledRun + throttleLimit
  /\ inThrottle /\ hoverListeners
  /\ \A g \in Geometries :
        ENABLED (handleMouseMove(g) /\ bubbleVars' = bubbleVars)

\* C30: a 2xx object from which no usable string is extracted is handled as
\* a failed fetch, by the initial load with the fallback joke stored and
\* shown and by a reload with the failure message shown; no undefined or
\* empty value is ever the stored joke or the text of a display region.
C30_UnusableBodyIsFailure ==
  /\ [](/\ currentJoke \notin {Undefined, ""}
        /\ speechContent # "" /\ jokeContent # "")
  /\ [][inflight' # inflight =>
          \A o \in Outcomes :
             (o.kind = "ok" /\ ~Truthy(ExtractJoke(o.data))) =>
                /\ Settle("initial", o) =>
                     currentJoke' = fallbackJoke /\ speechContent' = fallbackJoke
                /\ Settle("new", o) => speechContent' = errorMessage]_vars

\* ------------------------------------------------------------------------
\* Claims about absent regions, overlapping loads, taps and the switcher
\* ------------------------------------------------------------------------

C32_RegionsAgree ==
  (iconPresent /\ Outstanding = 0) =>
     /\ jokeRegionPresent => speechContent = jokeContent
     /\ Truthy(currentJoke) => speechContent = currentJoke

\* A reload was started and has settled while the initial load is still
\* outstanding: only a reload writes the bubble's text before then
ReloadSettledFirst ==
  /\ inflight.initial = 1 /\ inflight.new = 0
  /\ speechContent # LoadingJoke

\* C33: when a reload has settled before the initial load that it overlaps,
\* the settling of the initial load changes neither the stored joke nor the
\* text of the bubble or of the page.
C33_ReloadWins ==
  [][(ReloadSettledFirst /\ inflight'.initial = 0) =>
       UNCHANGED <<currentJoke, speechContent, jokeContent>>]_vars

\* C35: whenever the bubble is shown it has been positioned: its left and
\* top have been computed by positionBubble.
C35_ShownIsPositioned ==
  bubbleShown => (bubbleStyle.left # Unset /\ bubbleStyle.top # Unset)

\* C36: on a constructed controller, after any media-query change events,
\* isMobile is what Utils.isMobileDevice() returns now (touch support or a
\* narrow viewport) and supportsHover what Utils.supportsHover() returns now.
C36_FlagsAreFresh ==
  iconPresent =>
     (isMobile = isMobileDevice /\ supportsHover = supportsHoverQuery)

\* C37: the bubble never carries tail-left and tail-right together.
C37_OneTail == ~(bubbleTail.left /\ bubbleTail.right)

\* C37: positionBubble has set tail-right off mobile and has run again on
\* mobile, where it leaves the tail classes as they are
C37_Witness ==
  /\ isMobile /\ bubbleStyle.left = Percent(50)
  /\ bubbleTail.right /\ ~bubbleTail.left

\* C38: off mobile, when the bubble and both margins fit into the viewport,
\* a run of positionBubble leaves a left in pixels with 10 <= left and
\* left + bubbleWidth <= viewportWidth - 10.
C38_InsideMargins ==
  [][~isMobile => \A g \in Geometries :
       (BubbleWidth(g) + 20 <= g.viewportWidth /\ Positioned(g)) =>
          /\ bubbleStyle'.left.unit = "px"
          /\ 10 <= bubbleStyle'.left.v
          /\ bubbleStyle'.left.v + BubbleWidth(g) <= g.viewportWidth - 10]_vars

\* C38: a measured 300-wide bubble pushed back from the right edge of the
\* 1000-wide viewport: it ends exactly at the right margin
C38_Witness ==
  /\ ~isMobile /\ bubbleShown
  /\ bubbleStyle.left = Px(690) /\ bubbleTail.right

\* C34: on mobile, a hide timer that fires after a later tap has shown the
\* bubble again, and before that tap's 5000 ms have elapsed, does not hide
\* the bubble.
C34_LaterTapKeepsBubble ==
  [][(/\ isMobile /\ bubbleShown
      /\ Len(hideTimers') < Len(hideTimers)
      /\ hideTimers' # <<>>
      /\ LET t == hideTimers'[Len(hideTimers')] - 5000
         IN t < now /\ now < t + 5000) => bubbleShown']_vars

\* C39: at most one interval of the switcher is alive, and the handle is
\* non-null exactly while one is, and then it is that interval's; state is
\* 'prom' or 'highlight'; start() while the handle is set and stop() while
\* it is null change nothing; no interval callback can run while the handle
\* is null; every interval callback, and every start() while the handle is
\* null, flips state.
C39_OneInterval ==
  /\ [](/\ Len(switchTimers) <= 1
        /\ switchInterval # 0 <=> switchTimers # <<>>
        /\ switchInterval # 0 => switchTimers[1].id = switchInterval
        /\ switcherState \in {"prom", "highlight"}
        /\ switchInterval # 0 =>
             \A r \in TabIds :
                ~ENABLED (TabShown("monitoring-tab", r)
                            /\ switcherVars' # switcherVars)
        /\ switchInterval = 0 =>
             /\ ~ENABLED (TabHidden("monitoring-tab")
                            /\ switcherVars' # switcherVars)
             /\ ~ENABLED SwitchTimeout)
  /\ [][(SwitchTimeout
           \/ (switchInterval = 0 /\ TabShown("monitoring-tab", "other-tab")))
          => /\ switcherState' # switcherState
             /\ cardTitle => cardTitleText' = TitleOf(switcherState')]_vars

\* C39: switching was started, the interval switched once, switching was
\* stopped, and the time of the next switch has passed without one
C39_Witness ==
  /\ cardTitle /\ cardRest
  /\ switchInterval = 0 /\ switchTimers = <<>>
  /\ switcherState = "prom" /\ cardTitleText = "Monitoring"
  /\ now >= 60000

====
